---------------------------- MODULE Spec2Model ----------------------------
(***************************************************************************)
(* Team chess of the AAC bot: the ChessHandler (src/chess_handler.py) and  *)
(* the TeamChess cog that drives it (src/cogs/team_chess.py).              *)
(*                                                                         *)
(* Two specifications share the state:                                     *)
(*   SpecH  the public methods of ChessHandler called in any order;        *)
(*   Spec   the cog's command handlers (/start_game, /end_game, /vote),    *)
(*          each an asyncio coroutine that runs atomically between two     *)
(*          awaits that really suspend.                                    *)
(*                                                                         *)
(* Move texts are sequences of one-character strings, so that str.lower()  *)
(* is a computation.  The rules engine (the python-chess library) is not   *)
(* part of the repository; it is represented by a finite game graph whose  *)
(* positions show the cases the handler's code can meet: several legal     *)
(* moves, two legal moves whose SAN differ only in letter case, a single   *)
(* legal move, checkmate, stalemate, and a drawn position that still has   *)
(* legal moves.                                                            *)
(***************************************************************************)
EXTENDS Integers, Sequences, FiniteSets, TLC

\* ------------------------------------------------------------- bounds
\* voters (discord user ids 1..NumUsers)
NumUsers == 2
\* command handlers that may be in flight at the same time
MaxHandlers == 2
\* round numbers: those chess_config.json may hold when the cog is loaded,
\* and those start_game may be given
MaxRound == 2

Users == 1..NumUsers
Rounds == 1..MaxRound

\* ------------------------------------------------------------- move text
e4   == <<"e", "4">>
Nf3  == <<"N", "f", "3">>
d4   == <<"d", "4">>
e5   == <<"e", "5">>
Qh4m == <<"Q", "h", "4", "#">>
bxc3 == <<"b", "x", "c", "3">>
Bxc3 == <<"B", "x", "c", "3">>
Kf8  == <<"K", "f", "8">>
Kh8  == <<"K", "h", "8">>
Kd2  == <<"K", "d", "2">>
Ke2  == <<"K", "e", "2">>
Qg7m == <<"Q", "g", "7", "#">>
OO   == <<"O", "-", "O">>
Kf1  == <<"K", "f", "1">>

\* str.lower() on one character: the letters that occur in the texts used
LowerChar(c) ==
  CASE c = "B" -> "b"
    [] c = "C" -> "c"
    [] c = "D" -> "d"
    [] c = "E" -> "e"
    [] c = "F" -> "f"
    [] c = "H" -> "h"
    [] c = "K" -> "k"
    [] c = "N" -> "n"
    [] c = "O" -> "o"
    [] c = "Q" -> "q"
    [] c = "R" -> "r"
    [] c = "X" -> "x"
    [] OTHER -> c

\* str.lower()
Lower(text) == [i \in 1..Len(text) |-> LowerChar(text[i])]

\* ------------------------------------------------------------- rules engine
\* The game graph: for each position the side to move, the legal moves in
\* the engine's generation order (SAN and resulting position), and whether
\* the material is insufficient (a draw although moves may remain).
WHITE == TRUE
BLACK == FALSE

Edge(s, p) == [san |-> s, to |-> p]

Engine ==
  [ P0 |-> [turn |-> WHITE, dead |-> FALSE, check |-> FALSE,
            moves |-> <<Edge(e4, "P1"), Edge(Nf3, "P2"), Edge(d4, "P3")>>],
    P1 |-> [turn |-> BLACK, dead |-> FALSE, check |-> FALSE,
            moves |-> <<Edge(e5, "P4"), Edge(Qh4m, "M1")>>],
    P2 |-> [turn |-> BLACK, dead |-> FALSE, check |-> FALSE,
            moves |-> <<Edge(bxc3, "S1"), Edge(Bxc3, "M1"), Edge(Kf8, "P7")>>],
    P3 |-> [turn |-> BLACK, dead |-> FALSE, check |-> TRUE,
            moves |-> <<Edge(Kh8, "P8")>>],
    P4 |-> [turn |-> WHITE, dead |-> TRUE, check |-> FALSE,
            moves |-> <<Edge(Kd2, "S2"), Edge(Ke2, "S2")>>],
    P7 |-> [turn |-> WHITE, dead |-> FALSE, check |-> FALSE,
            moves |-> <<Edge(Qg7m, "M2")>>],
    P8 |-> [turn |-> WHITE, dead |-> FALSE, check |-> FALSE,
            moves |-> <<Edge(OO, "S2"), Edge(Kf1, "S2")>>],
    M1 |-> [turn |-> WHITE, dead |-> FALSE, check |-> TRUE,  moves |-> <<>>],
    M2 |-> [turn |-> BLACK, dead |-> FALSE, check |-> TRUE,  moves |-> <<>>],
    S1 |-> [turn |-> WHITE, dead |-> FALSE, check |-> FALSE, moves |-> <<>>],
    S2 |-> [turn |-> BLACK, dead |-> FALSE, check |-> FALSE, moves |-> <<>>] ]

\* The FEN strings a game may be set up from: the default of start_game,
\* which describes P0, and one that stands for the set-up of position P2.
STARTING_FEN == "rnbqkbnr/pppppppp/8/8/8/8/PPPPPPPP/RNBQKBNR w KQkq - 0 1"
OTHER_FEN == "FEN of P2"
Fens == {STARTING_FEN, OTHER_FEN}
FenPosition(fen) == IF fen = STARTING_FEN THEN "P0" ELSE "P2"

\* chess.Board(fen): a root position and an empty move stack
Board(fen) == [root |-> FenPosition(fen), move_stack |-> <<>>]

\* the position a board stands at: the root with the move stack replayed
RECURSIVE PositionAfter(_, _)
PositionAfter(p, stack) ==
  IF stack = <<>> THEN p
  ELSE LET hit == {i \in 1..Len(Engine[p].moves) : Engine[p].moves[i].san = Head(stack)}
       IN  PositionAfter(Engine[p].moves[CHOOSE i \in hit : TRUE].to, Tail(stack))

Position(b) == PositionAfter(b.root, b.move_stack)

\* [board.san(move) for move in board.legal_moves]
EngineLegalSans(b) ==
  LET ms == Engine[Position(b)].moves IN [i \in 1..Len(ms) |-> ms[i].san]

\* board.turn
BoardTurn(b) == Engine[Position(b)].turn

\* board.outcome(): None while the game is undecided
BoardOutcome(b) ==
  LET p == Engine[Position(b)]
  IN  IF p.moves = <<>> /\ p.check THEN "checkmate"
      ELSE IF p.moves = <<>> THEN "stalemate"
      ELSE IF p.dead THEN "insufficient_material"
      ELSE "None"

\* board.result()
BoardResult(b) ==
  CASE BoardOutcome(b) = "None" -> "*"
    [] BoardOutcome(b) = "checkmate" -> IF BoardTurn(b) = WHITE THEN "0-1" ELSE "1-0"
    [] OTHER -> "1/2-1/2"

\* board.push(move)
BoardPush(b, m) == [b EXCEPT !.move_stack = Append(@, m)]

\* board.pop(): the board without its last move, and that move
BoardPop(b) ==
  [board |-> [b EXCEPT !.move_stack = SubSeq(@, 1, Len(@) - 1)],
   move  |-> b.move_stack[Len(b.move_stack)]]

\* board.push_san(text) parses text against the legal moves of the position
\* and raises when none matches
PushSanLegal(b, text) ==
  \E i \in 1..Len(EngineLegalSans(b)) : EngineLegalSans(b)[i] = text


\* ------------------------------------------------------------- state
VARIABLES
  board,            \* ChessHandler.board
  game_number,      \* ChessHandler.game_number
  legal_moves,      \* ChessHandler.legal_moves
  votes,            \* ChessHandler.votes: user id -> move text
  playing,          \* ChessHandler.playing
  returned,         \* SpecH: the last call's method, return value, exception
  cog_game_number,  \* TeamChess.game_number
  vote_minimum,     \* TeamChess.vote_minimum
  pc,               \* how many command handlers are suspended at each await
  outbox,           \* the last message a handler posted to the channel
  error_log,        \* the last error a handler logged
  games,            \* the files written under games/
  config_file       \* game_number in config/chess_config.json

handler_vars == <<board, game_number, legal_moves, votes, playing>>
cog_vars == <<cog_game_number, vote_minimum, pc, outbox, error_log, games, config_file>>
vars == <<board, game_number, legal_moves, votes, playing, returned,
          cog_game_number, vote_minimum, pc, outbox, error_log, games, config_file>>

None == "None"

\* the awaits at which a handler of the cog is suspended while the state may
\* change under it, named by command and line
Awaits == {"vote_295", "popular_106", "start_165", "end_216"}

\* the ChessHandler object as a value
CH == [board |-> board, game_number |-> game_number, legal_moves |-> legal_moves,
       votes |-> votes, playing |-> playing]

\* a method's result: the object afterwards, what it returned, what it raised
Result(ch, ret, raised) == [ch |-> ch, ret |-> ret, raised |-> raised]

\* ------------------------------------------------------------- ChessHandler
\* ChessHandler.__init__
NewChessHandler ==
  [board |-> Board(STARTING_FEN), game_number |-> 1, legal_moves |-> <<>>,
   votes |-> <<>>, playing |-> FALSE]

\* the vote_pool property: a dict built in the order of legal_moves, here
\* its items; a vote counts for every legal move it equals without case
VoteCount(ch, move) ==
  Cardinality({u \in DOMAIN ch.votes : Lower(ch.votes[u]) = Lower(move)})

\* (mutant) only the moves somebody voted for are keys
vote_pool_VotedOnly(ch) ==
  LET HasVote(m) == VoteCount(ch, m) > 0
      voted == SelectSeq(ch.legal_moves, HasVote)
  IN  [i \in 1..Len(voted) |-> [move |-> voted[i], votes |-> VoteCount(ch, voted[i])]]

vote_pool(ch) ==
  [i \in 1..Len(ch.legal_moves) |->
     [move |-> ch.legal_moves[i], votes |-> VoteCount(ch, ch.legal_moves[i])]]

\* sum(vote_pool.values())
RECURSIVE SumVotes(_)
SumVotes(pool) == IF pool = <<>> THEN 0 ELSE Head(pool).votes + SumVotes(Tail(pool))

\* max(vote_pool.values()), of a pool that is not empty
MaxVotes(pool) ==
  CHOOSE n \in {pool[i].votes : i \in 1..Len(pool)} :
    \A i \in 1..Len(pool) : pool[i].votes <= n

\* max(vote_pool, key = vote_pool.get): the first key with the most votes
PopularMove(pool) ==
  pool[CHOOSE i \in 1..Len(pool) :
         /\ pool[i].votes = MaxVotes(pool)
         /\ \A j \in 1..(i - 1) : pool[j].votes < MaxVotes(pool)].move

\* reset_legal_moves
reset_legal_moves(ch) == [ch EXCEPT !.legal_moves = EngineLegalSans(ch.board)]

\* reset_voting
reset_voting(ch) == [ch EXCEPT !.votes = <<>>]

\* str(game_number), for the numbers below 100
Digit(n) == <<"0", "1", "2", "3", "4", "5", "6", "7", "8", "9">>[n + 1]
Str(n) == IF n < 10 THEN <<Digit(n)>> ELSE <<Digit(n \div 10), Digit(n % 10)>>

\* get_pgn, "undo all moves": pop every move onto the switchyard
RECURSIVE UndoAll(_, _)
UndoAll(b, switchyard) ==
  IF b.move_stack = <<>> THEN [board |-> b, switchyard |-> switchyard]
  ELSE UndoAll(BoardPop(b).board, Append(switchyard, BoardPop(b).move))

\* (mutant) the moves are added to the game tree and not pushed back
RECURSIVE ReplayAll_NoPush(_, _, _)
ReplayAll_NoPush(b, switchyard, mainline) ==
  IF switchyard = <<>> THEN [board |-> b, mainline |-> mainline]
  ELSE LET move == switchyard[Len(switchyard)]
       IN  ReplayAll_NoPush(b,
                            SubSeq(switchyard, 1, Len(switchyard) - 1),
                            Append(mainline, move))

\* (mutant) each move is put in front of the line built so far
RECURSIVE ReplayAll_Prepend(_, _, _)
ReplayAll_Prepend(b, switchyard, mainline) ==
  IF switchyard = <<>> THEN [board |-> b, mainline |-> mainline]
  ELSE LET move == switchyard[Len(switchyard)]
       IN  ReplayAll_Prepend(BoardPush(b, move),
                             SubSeq(switchyard, 1, Len(switchyard) - 1),
                             <<move>> \o mainline)

\* get_pgn, "replay all moves": pop the switchyard from its right end, add
\* the move to the game tree and push it back on the board
RECURSIVE ReplayAll(_, _, _)
ReplayAll(b, switchyard, mainline) ==
  IF switchyard = <<>> THEN [board |-> b, mainline |-> mainline]
  ELSE LET move == switchyard[Len(switchyard)]
       IN  ReplayAll(BoardPush(b, move),
                     SubSeq(switchyard, 1, Len(switchyard) - 1),
                     Append(mainline, move))

\* (mutant) the header is the engine's result whatever it is
ResultHeader_AsIs(b) == BoardResult(b)

\* get_pgn, "set the game result"
ResultHeader(b) ==
  IF BoardResult(b) = "*" THEN "GAME CANCELED" ELSE BoardResult(b)

\* get_pgn: the exported game, as the headers and the main line it holds
get_pgn(ch, white_team, black_team) ==
  LET undone == UndoAll(ch.board, <<>>)
      replayed == ReplayAll(undone.board, undone.switchyard, <<>>)
      b == replayed.board
      pgn == [Round |-> Str(ch.game_number),
              White |-> white_team,
              Black |-> black_team,
              Setup |-> undone.board.root,
              Moves |-> replayed.mainline,
              Result |-> ResultHeader(b)]
  IN  Result([ch EXCEPT !.board = b], pgn, None)

\* (mutant) the game is started without reset_voting
start_game_KeepVotes(ch, number, fen) ==
  LET ch1 == [ch EXCEPT !.game_number = number, !.board = Board(fen)]
      ch2 == reset_legal_moves(ch1)
  IN  Result([ch2 EXCEPT !.playing = TRUE], None, None)

\* start_game
start_game(ch, number, fen) ==
  LET ch1 == [ch EXCEPT !.game_number = number, !.board = Board(fen)]
      ch2 == reset_legal_moves(ch1)
      ch3 == reset_voting(ch2)
  IN  Result([ch3 EXCEPT !.playing = TRUE], None, None)

\* end_game
end_game(ch, white_team, black_team) ==
  LET ch1 == [ch EXCEPT !.playing = FALSE]
      white == IF white_team = "" THEN None ELSE white_team
      black == IF black_team = "" THEN None ELSE black_team
  IN  get_pgn(ch1, white, black)

\* try_add_vote, the test of its first line
IsLegalVote(ch, move) ==
  \E i \in 1..Len(ch.legal_moves) : Lower(move) = Lower(ch.legal_moves[i])

\* dict assignment votes[user_id] = move
SetVote(vs, user_id, move) ==
  [u \in (DOMAIN vs) \cup {user_id} |-> IF u = user_id THEN move ELSE vs[u]]

\* (mutant) the vote is stored before the move is checked
try_add_vote_StoreFirst(ch, user_id, move) ==
  LET stored == [ch EXCEPT !.votes = SetVote(ch.votes, user_id, move)]
  IN  IF ~IsLegalVote(ch, move) THEN Result(stored, FALSE, None)
      ELSE Result(stored, TRUE, None)

\* (mutant) an accepted vote replaces the whole pool
try_add_vote_ClearOthers(ch, user_id, move) ==
  IF ~IsLegalVote(ch, move) THEN Result(ch, FALSE, None)
  ELSE Result([ch EXCEPT !.votes = SetVote(<<>>, user_id, move)], TRUE, None)

\* (mutant) every text is taken as a vote
try_add_vote_AnyText(ch, user_id, move) ==
  Result([ch EXCEPT !.votes = SetVote(ch.votes, user_id, move)], TRUE, None)

\* try_add_vote
try_add_vote(ch, user_id, move) ==
  IF ~IsLegalVote(ch, move) THEN Result(ch, FALSE, None)
  ELSE Result([ch EXCEPT !.votes = SetVote(ch.votes, user_id, move)], TRUE, None)

\* (mutant) the move is pushed and the votes reset, the legal moves are not
play_popular_move_StaleMoves(ch) ==
  IF vote_pool(ch) = <<>> THEN Result(ch, None, "ValueError")
  ELSE LET move == PopularMove(vote_pool(ch))
       IN  IF ~PushSanLegal(ch.board, move) THEN Result(ch, None, "IllegalMoveError")
           ELSE Result(reset_voting([ch EXCEPT !.board = BoardPush(ch.board, move)]),
                       None, None)

\* (mutant) the move is pushed and the legal moves reset, the votes are not
play_popular_move_KeepVotes(ch) ==
  IF vote_pool(ch) = <<>> THEN Result(ch, None, "ValueError")
  ELSE LET move == PopularMove(vote_pool(ch))
       IN  IF ~PushSanLegal(ch.board, move) THEN Result(ch, None, "IllegalMoveError")
           ELSE Result(reset_legal_moves([ch EXCEPT !.board = BoardPush(ch.board, move)]),
                       None, None)

\* play_popular_move: max() of an empty pool raises ValueError, push_san of a
\* text that is no legal move raises too; the object is then left as it was
play_popular_move(ch) ==
  IF vote_pool(ch) = <<>> THEN Result(ch, None, "ValueError")
  ELSE LET move == PopularMove(vote_pool(ch))
       IN  IF ~PushSanLegal(ch.board, move) THEN Result(ch, None, "IllegalMoveError")
           ELSE LET ch1 == [ch EXCEPT !.board = BoardPush(ch.board, move)]
                IN  Result(reset_legal_moves(reset_voting(ch1)), None, None)

\* (mutant) a pool that is not empty is never said to be tied
check_vote_tie_Never(ch) ==
  IF vote_pool(ch) = <<>> THEN Result(ch, None, "ValueError")
  ELSE Result(ch, FALSE, None)

\* (mutant) a pool that is not empty is always said to be tied
check_vote_tie_Always(ch) ==
  IF vote_pool(ch) = <<>> THEN Result(ch, None, "ValueError")
  ELSE Result(ch, TRUE, None)

\* check_vote_tie
check_vote_tie(ch) ==
  IF vote_pool(ch) = <<>> THEN Result(ch, None, "ValueError")
  ELSE LET most_votes == MaxVotes(vote_pool(ch))
           tied == {i \in 1..Len(vote_pool(ch)) : vote_pool(ch)[i].votes = most_votes}
       IN  Result(ch, Cardinality(tied) # 1, None)

\* ------------------------------------------------------------- inputs
\* what a voter may type: legal moves as the engine writes them, the same in
\* another letter case, a move of another position, and no move at all
MoveTexts ==
  { e4, Nf3, d4, e5, Qh4m, bxc3, Bxc3, Kf8, Kh8, Kd2, Ke2, Qg7m, OO, Kf1,
    <<"E", "4">>, <<"n", "f", "3">>, <<"B", "X", "C", "3">>, <<"k", "f", "8">>,
    <<"z", "z">>, <<>> }

TeamNames == {"", "AAC"}

\* ------------------------------------------------------------- SpecH
\* the object after a call, and what the call gave back
Call(method, r) ==
  /\ board' = r.ch.board
  /\ game_number' = r.ch.game_number
  /\ legal_moves' = r.ch.legal_moves
  /\ votes' = r.ch.votes
  /\ playing' = r.ch.playing
  /\ returned' = [method |-> method, ret |-> r.ret, raised |-> r.raised]

\* start_game with the first and with the largest round number
H_start_game ==
  \E number \in {1, MaxRound}, fen \in Fens :
    /\ Call("start_game", start_game(CH, number, fen))
    /\ UNCHANGED cog_vars

H_end_game ==
  \E white_team \in TeamNames, black_team \in TeamNames :
    /\ Call("end_game", end_game(CH, white_team, black_team))
    /\ UNCHANGED cog_vars

\* get_pgn with its default arguments
H_get_pgn ==
  /\ Call("get_pgn", get_pgn(CH, "No players", "No players"))
  /\ UNCHANGED cog_vars

H_try_add_vote ==
  \E user_id \in Users, move \in MoveTexts :
    /\ Call("try_add_vote", try_add_vote(CH, user_id, move))
    /\ UNCHANGED cog_vars

H_play_popular_move ==
  /\ Call("play_popular_move", play_popular_move(CH))
  /\ UNCHANGED cog_vars

H_check_vote_tie ==
  /\ Call("check_vote_tie", check_vote_tie(CH))
  /\ UNCHANGED cog_vars

\* TeamChess.__init__: the round number comes from chess_config.json
Init ==
  /\ board = NewChessHandler.board
  /\ game_number = NewChessHandler.game_number
  /\ legal_moves = NewChessHandler.legal_moves
  /\ votes = NewChessHandler.votes
  /\ playing = NewChessHandler.playing
  /\ returned = [method |-> "__init__", ret |-> None, raised |-> None]
  /\ config_file \in Rounds
  /\ cog_game_number = config_file
  /\ vote_minimum = 0
  /\ pc = [label \in Awaits |-> 0]
  /\ outbox = [kind |-> "none"]
  /\ error_log = "none"
  /\ games = <<>>

NextH ==
  \/ H_start_game
  \/ H_end_game
  \/ H_get_pgn
  \/ H_try_add_vote
  \/ H_play_popular_move
  \/ H_check_vote_tie

\* the handler alone: the cog around it is loaded and does nothing
InitH == Init /\ config_file = 1

SpecH == InitH /\ [][NextH]_vars


\* ------------------------------------------------------------- TeamChess
\* the roles of the voters: user 1 is on both teams, user 2 on black, any
\* other on white
Roles(user) ==
  CASE user = 1 -> {"white", "black"}
    [] user = 2 -> {"black"}
    [] OTHER -> {"white"}

\* what /start_game may be given as vote_minimum
VoteMinimumTexts == {<<"0">>, <<"1">>, <<"2">>, <<"t", "w", "o">>}

\* str.isnumeric()
IsNumeric(text) ==
  /\ text # <<>>
  /\ \A i \in 1..Len(text) : \E n \in 0..9 : Digit(n) = text[i]

\* int(text), of a numeric text
RECURSIVE ParseInt(_)
ParseInt(text) ==
  IF text = <<>> THEN 0
  ELSE 10 * ParseInt(SubSeq(text, 1, Len(text) - 1))
       + (CHOOSE n \in 0..9 : Digit(n) = text[Len(text)])

\* the ChessHandler fields after a call made by the cog
SetCH(ch) ==
  /\ board' = ch.board
  /\ game_number' = ch.game_number
  /\ legal_moves' = ch.legal_moves
  /\ votes' = ch.votes
  /\ playing' = ch.playing

\* a message posted to the channel; the ephemeral answers, which only the
\* caller sees, are not kept
Send(kind) == outbox' = [kind |-> kind]

\* the handlers suspended at each await
InFlight == pc["vote_295"] + pc["popular_106"] + pc["start_165"] + pc["end_216"]

\* a command arrives and its handler runs to the await at label
Suspend(label) == pc' = [pc EXCEPT ![label] = @ + 1]

\* a command arrives and its handler returns before any await that suspends
Return == UNCHANGED pc

\* the handler suspended at label resumes
Resumes(label) == pc[label] > 0

\* ... and runs to the await at next
Move(label, next) == pc' = [pc EXCEPT ![label] = @ - 1, ![next] = @ + 1]

\* ... and runs to its end
Finish(label) == pc' = [pc EXCEPT ![label] = @ - 1]

\* the arguments ChessHandler.end_game requires besides self, and those
\* TeamChess.end_game passes
EndGameParameters == <<"white_team", "black_team">>
EndGameArguments == <<>>

\* TeamChess.end_game: the call of ChessHandler.end_game binds the arguments
\* first and raises TypeError when they do not fit; only then would the game
\* be ended, saved under the round number, the config dumped and the round
\* number incremented
TeamChess_end_game(ch, tc) ==
  IF Len(EndGameArguments) # Len(EndGameParameters)
  THEN [ch |-> ch, tc |-> tc, raised |-> "TypeError", sent |-> None]
  ELSE LET r == end_game(ch, EndGameArguments[1], EndGameArguments[2])
           saved == [n \in (DOMAIN tc.games) \cup {tc.game_number} |->
                       IF n = tc.game_number THEN r.ret ELSE tc.games[n]]
       IN  [ch |-> r.ch,
            tc |-> [tc EXCEPT !.games = saved,
                              !.config_file = tc.game_number,
                              !.game_number = tc.game_number + 1],
            raised |-> None,
            sent |-> r.ret]

\* the fields of the cog that TeamChess.end_game may write
TC == [game_number |-> cog_game_number, games |-> games, config_file |-> config_file]

SetTC(tc) ==
  /\ cog_game_number' = tc.game_number
  /\ games' = tc.games
  /\ config_file' = tc.config_file

\* the state after TeamChess.end_game returned or raised into the handler's
\* except clause, which logs the error
AfterEndGame(r) ==
  /\ SetCH(r.ch)
  /\ SetTC(r.tc)
  /\ error_log' = IF r.raised = None THEN error_log ELSE r.raised
  /\ outbox' = IF r.raised = None THEN [kind |-> "game_over", pgn |-> r.sent] ELSE outbox

\* (mutant) the embed of a tie names only the move max() would pick
TieFields_First(ch) ==
  LET pool == vote_pool(ch)
  IN  {[move |-> PopularMove(pool), votes |-> MaxVotes(pool)]}

\* the embed of a tie: one field for each move that has the most votes
TieFields(ch) ==
  LET pool == vote_pool(ch)
      most_votes == MaxVotes(pool)
  IN  {pool[i] : i \in {j \in 1..Len(pool) : pool[j].votes = most_votes}}

\* /vote, the if and the elif on the names of the voter's roles: neither
\* sends "It's not your turn to play!"
TeamAllowed(b, roles) ==
  /\ ~(BoardTurn(b) /\ "white" \notin roles)
  /\ "black" \in roles

\* /vote, the test of the voter's team against the side to move
VoteAccepted(user_id) == TeamAllowed(board, Roles(user_id))

\* (mutant) /vote stores the vote of anyone in the channel, with no test of
\* playing, of the team or of the move
VoteCommand_Unchecked ==
  /\ InFlight < MaxHandlers
  /\ UNCHANGED <<returned, cog_game_number, vote_minimum, outbox, error_log,
                 games, config_file>>
  /\ \E in_channel \in BOOLEAN :
       IF ~in_channel
       THEN Return /\ UNCHANGED handler_vars
       ELSE \E user_id \in Users, move \in MoveTexts :
              /\ SetCH([CH EXCEPT !.votes = SetVote(votes, user_id, move)])
              /\ Suspend("vote_295")

\* /vote up to its first await that suspends: the checks, each answered with
\* an ephemeral message, then try_add_vote and the answer
VoteCommand ==
  /\ InFlight < MaxHandlers
  /\ UNCHANGED <<returned, cog_game_number, vote_minimum, outbox, error_log,
                 games, config_file>>
  /\ \E in_channel \in BOOLEAN :
       IF ~in_channel \/ ~playing
       THEN Return /\ UNCHANGED handler_vars
       ELSE \E user_id \in Users :
              IF ~VoteAccepted(user_id)
              THEN Return /\ UNCHANGED handler_vars
              ELSE \E move \in MoveTexts :
                     LET r == try_add_vote(CH, user_id, move)
                     IN  IF ~r.ret
                         THEN Return /\ UNCHANGED handler_vars
                         ELSE SetCH(r.ch) /\ Suspend("vote_295")

\* try_popular_move up to its await; its except clause logs what is raised
try_popular_move ==
  LET tie == check_vote_tie(CH)
      played == play_popular_move(CH)
  IN  IF tie.raised # None
      THEN /\ error_log' = tie.raised
           /\ Finish("vote_295")
           /\ UNCHANGED <<handler_vars, outbox>>
      ELSE IF tie.ret
      THEN /\ outbox' = [kind |-> "tie", fields |-> TieFields(CH)]
           /\ Finish("vote_295")
           /\ UNCHANGED <<handler_vars, error_log>>
      ELSE IF played.raised # None
      THEN /\ error_log' = played.raised
           /\ Finish("vote_295")
           /\ UNCHANGED <<handler_vars, outbox>>
      ELSE /\ SetCH(played.ch)
           /\ Send("board")
           /\ Move("vote_295", "popular_106")
           /\ UNCHANGED error_log

\* (mutant) the number of votes is not compared with vote_minimum
QuorumReached_Always(ch, minimum) == TRUE

\* /vote, the test "the vote minimum has been reached"
QuorumReached(ch, minimum) == Cardinality(DOMAIN ch.votes) >= minimum

\* /vote after the answer was sent: the quorum test and try_popular_move
VoteResume ==
  /\ Resumes("vote_295")
  /\ UNCHANGED <<returned, cog_game_number, vote_minimum, games, config_file>>
  /\ IF QuorumReached(CH, vote_minimum)
     THEN try_popular_move
     ELSE Finish("vote_295") /\ UNCHANGED <<handler_vars, outbox, error_log>>

\* try_popular_move after the board was sent: the game may be over
PopularResume ==
  /\ Resumes("popular_106")
  /\ UNCHANGED <<returned, vote_minimum>>
  /\ Finish("popular_106")
  /\ IF BoardOutcome(board) # "None"
     THEN AfterEndGame(TeamChess_end_game(CH, TC))
     ELSE UNCHANGED <<handler_vars, cog_game_number, games, config_file, outbox, error_log>>

\* (mutant) /start_game does not look at playing
StartRefused_Never(ch) == FALSE

\* /start_game, the test "is there already a game in session"
StartRefused(ch) == ch.playing

\* /start_game up to its first await that suspends (check_admin returns at
\* once for an admin): the checks, each answered with an ephemeral message,
\* then vote_minimum is set and "Starting game..." is posted
StartCommand ==
  /\ InFlight < MaxHandlers
  /\ UNCHANGED <<handler_vars, returned, cog_game_number, error_log, games, config_file>>
  /\ \E is_admin \in BOOLEAN, in_channel \in BOOLEAN :
       IF ~is_admin \/ ~in_channel \/ StartRefused(CH)
       THEN Return /\ UNCHANGED <<vote_minimum, outbox>>
       ELSE \E text \in VoteMinimumTexts :
              IF ~IsNumeric(text)
              THEN Return /\ UNCHANGED <<vote_minimum, outbox>>
              ELSE /\ vote_minimum' = ParseInt(text)
                   /\ Send("starting")
                   /\ Suspend("start_165")

\* /start_game after "Starting game..." was sent: the game is started; with
\* mix_teams the loop over the members reads self.TEAMS, which no line sets
StartResume ==
  \E mix_teams \in BOOLEAN :
    /\ Resumes("start_165")
    /\ SetCH(start_game(CH, cog_game_number, STARTING_FEN).ch)
    /\ Finish("start_165")
    /\ IF mix_teams
       THEN Send("mixing_teams") /\ error_log' = "AttributeError"
       ELSE Send("board") /\ UNCHANGED error_log
    /\ UNCHANGED <<returned, cog_game_number, vote_minimum, games, config_file>>

\* (mutant) /end_game does not look at playing
EndRefused_Never(ch) == FALSE

\* /end_game, the test "is there a game in session"
EndRefused(ch) == ~ch.playing

\* /end_game up to its first await that suspends
EndCommand ==
  /\ InFlight < MaxHandlers
  /\ UNCHANGED <<handler_vars, returned, cog_game_number, vote_minimum,
                 error_log, games, config_file>>
  /\ \E is_admin \in BOOLEAN, in_channel \in BOOLEAN :
       IF ~is_admin \/ ~in_channel \/ EndRefused(CH)
       THEN Return /\ UNCHANGED outbox
       ELSE Send("ending") /\ Suspend("end_216")

\* /end_game after "Ending game..." was sent
EndResume ==
  /\ Resumes("end_216")
  /\ UNCHANGED <<returned, vote_minimum>>
  /\ Finish("end_216")
  /\ AfterEndGame(TeamChess_end_game(CH, TC))

Next ==
  \/ VoteCommand
  \/ VoteResume
  \/ PopularResume
  \/ StartCommand
  \/ StartResume
  \/ EndCommand
  \/ EndResume

Spec == Init /\ [][Next]_vars


\* ------------------------------------------------------------- properties
\* the cached legal moves are those the engine gives for the board
Fresh == legal_moves = EngineLegalSans(board)

\* text a and text b are equal when letter case is ignored
SameMove(a, b) == Lower(a) = Lower(b)

\* the number of votes in the pool that name the move
Tally(vs, move) == Cardinality({u \in DOMAIN vs : SameMove(vs[u], move)})

\* the legal moves of the cached list that have the most votes
MostVoted(vs, legal) ==
  {m \in {legal[i] : i \in 1..Len(legal)} :
     \A i \in 1..Len(legal) : Tally(vs, legal[i]) <= Tally(vs, m)}

\* C1 (as claimed): in every state that any sequence of start_game,
\* try_add_vote, play_popular_move, get_pgn and end_game reaches,
\* legal_moves is the engine's legal-move list of the current board.
C1_NoStaleLegalMoves == Fresh

\* C1 (amended): legal_moves is the engine's legal-move list of the current
\* board in every state reached after a start_game; until the first
\* start_game the handler stays as constructed, with an empty legal_moves.
C1_NoStaleLegalMovesOnceStarted == CH = NewChessHandler \/ Fresh

\* C1 witness: a game that was started, advanced by two moves and ended.
C1_Witness ==
  /\ Len(board.move_stack) = 2
  /\ ~playing
  /\ legal_moves # <<>>
  /\ Fresh

\* C2: when try_popular_move runs, it applies a move only if exactly one
\* legal move has the highest count and that count is above zero, and then
\* it applies that move; otherwise it reports a tie and applies nothing.
C2_WinnerRule ==
  [][(/\ Resumes("vote_295")
      /\ pc'["vote_295"] < pc["vote_295"]
      /\ Cardinality(DOMAIN votes) >= vote_minimum
      /\ VoteResume) =>
       IF /\ Cardinality(MostVoted(votes, legal_moves)) = 1
          /\ \E m \in MostVoted(votes, legal_moves) : Tally(votes, m) > 0
       THEN \E m \in MostVoted(votes, legal_moves) : board' = BoardPush(board, m)
       ELSE board' = board /\ outbox'.kind = "tie"]_vars

\* C3: the counts of vote_pool add up to the number of votes.
C3_TallyTotals == SumVotes(vote_pool(CH)) = Cardinality(DOMAIN votes)

\* C4: in every reachable state, try_add_vote returns False for every move
\* that is not equal, letter case ignored, to a legal move, and then leaves
\* votes as it was.
C4_RejectInvariant ==
  \A user_id \in Users, move \in MoveTexts :
    (\A i \in 1..Len(legal_moves) : ~SameMove(move, legal_moves[i]))
    => /\ try_add_vote(CH, user_id, move).ret = FALSE
       /\ try_add_vote(CH, user_id, move).ch.votes = votes

\* C4 witness: a vote was rejected while the pool held a vote.
C4_Witness ==
  /\ returned.method = "try_add_vote"
  /\ returned.ret = FALSE
  /\ votes # <<>>

\* C5: in every reachable state, a vote that try_add_vote accepts leaves one
\* entry for its voter, the vote just given, and every other entry as it
\* was; the pool never holds more entries than there are voters; a re-vote
\* moves one count of the tally from the old move to the new one.
C5_LastVoteWins ==
  \A user_id \in Users, move \in MoveTexts :
    LET r == try_add_vote(CH, user_id, move)
        legal == {legal_moves[i] : i \in 1..Len(legal_moves)}
    IN  r.ret =>
          /\ DOMAIN r.ch.votes = DOMAIN votes \cup {user_id}
          /\ r.ch.votes[user_id] = move
          /\ \A u \in DOMAIN votes : u # user_id => r.ch.votes[u] = votes[u]
          /\ Cardinality(DOMAIN r.ch.votes) <= NumUsers
          /\ user_id \in DOMAIN votes =>
               \E old \in legal, new \in legal :
                 /\ SameMove(old, votes[user_id])
                 /\ SameMove(new, move)
                 /\ \A i \in 1..Len(legal_moves) :
                      vote_pool(r.ch)[i].votes =
                        vote_pool(CH)[i].votes
                          - (IF legal_moves[i] = old THEN 1 ELSE 0)
                          + (IF legal_moves[i] = new THEN 1 ELSE 0)

\* C5 (the part that holds): the same without the last clause on the tally.
C5_OneEntryPerVoter ==
  \A user_id \in Users, move \in MoveTexts :
    LET r == try_add_vote(CH, user_id, move)
    IN  r.ret =>
          /\ DOMAIN r.ch.votes = DOMAIN votes \cup {user_id}
          /\ r.ch.votes[user_id] = move
          /\ \A u \in DOMAIN votes : u # user_id => r.ch.votes[u] = votes[u]
          /\ Cardinality(DOMAIN r.ch.votes) <= NumUsers

\* C6: when two or more legal moves share the highest count,
\* try_popular_move reports exactly the moves with that count and leaves the
\* board, legal_moves, the votes and playing as they were.
C6_TieHandling ==
  [][(/\ Resumes("vote_295")
      /\ pc'["vote_295"] < pc["vote_295"]
      /\ Cardinality(DOMAIN votes) >= vote_minimum
      /\ Cardinality(MostVoted(votes, legal_moves)) >= 2
      /\ VoteResume)
     => /\ outbox'.kind = "tie"
        /\ {f.move : f \in outbox'.fields} = MostVoted(votes, legal_moves)
        /\ \A f \in outbox'.fields : f.votes = Tally(votes, f.move)
        /\ UNCHANGED <<board, legal_moves, votes, playing>>]_vars

\* C6 witness: a tie between two voted moves was reported and the votes kept.
C6_Witness ==
  /\ outbox.kind = "tie"
  /\ Cardinality(outbox.fields) = 2
  /\ Cardinality(DOMAIN votes) = 2
  /\ playing

\* C7: after play_popular_move succeeded the move stack is the one before
\* with one move appended, a move with the highest count; the side to move
\* has changed, the votes are empty and legal_moves is that of the new board.
C7_SuccessfulApplication ==
  [][(returned'.method = "play_popular_move" /\ returned'.raised = None)
     => /\ \E m \in MostVoted(votes, legal_moves) :
             board'.move_stack = Append(board.move_stack, m)
        /\ board'.root = board.root
        /\ Len(board'.move_stack) = Len(board.move_stack) + 1
        /\ BoardTurn(board') # BoardTurn(board)
        /\ votes' = <<>>
        /\ legal_moves' = EngineLegalSans(board')]_vars

\* C7 witness: the second move of a game was applied.
C7_Witness ==
  /\ returned.method = "play_popular_move"
  /\ returned.raised = None
  /\ Len(board.move_stack) = 2
  /\ votes = <<>>

\* C8: when the move try_popular_move applied has decided the game, the game
\* is ended without a further command: playing is False once the handler
\* has run on.
C8_AutoEnd ==
  [][(/\ Resumes("popular_106")
      /\ pc'["popular_106"] < pc["popular_106"]
      /\ BoardOutcome(board) # "None"
      /\ PopularResume) => ~playing']_vars

\* C9: an /end_game accepted while a game is played produces the record of
\* the game and leaves playing False.
C9_EndFromActive ==
  [][(/\ Resumes("end_216")
      /\ pc'["end_216"] < pc["end_216"]
      /\ EndResume) =>
       (~playing' /\ outbox'.kind = "game_over")]_vars

\* C10: a /start_game issued while playing is True is refused and changes
\* nothing: not the board, legal_moves, the votes, the round numbers or
\* vote_minimum, and no handler is left in flight for it.
C10_StartWhileActive ==
  [][(playing /\ StartCommand) =>
       UNCHANGED <<board, legal_moves, votes, playing, game_number,
                   cog_game_number, vote_minimum, pc, games, config_file>>]_vars

\* C10 witness: a game is under way with a move played and a vote in the
\* pool, and a command can be taken.
C10_Witness ==
  /\ playing
  /\ board.move_stack # <<>>
  /\ votes # <<>>
  /\ InFlight < MaxHandlers

\* C11: an /end_game issued while playing is False is refused and changes
\* nothing: no record is posted, no file is written under games/ or to the
\* config, the round numbers and the ChessHandler stay as they were, and no
\* handler is left in flight for it.
C11_EndWhileIdle ==
  [][(~playing /\ EndCommand) =>
       UNCHANGED <<board, game_number, legal_moves, votes, playing,
                   cog_game_number, vote_minimum, pc, outbox, error_log,
                   games, config_file>>]_vars

\* C11 witness: no game is played while a /start_game is still in flight, and
\* a command can be taken.
C11_Witness ==
  /\ ~playing
  /\ pc["start_165"] > 0
  /\ outbox.kind = "starting"
  /\ InFlight < MaxHandlers

\* C12: whatever the state start_game(game_number, fen) is called in, the
\* board is afterwards at the position fen describes (the starting position
\* for the default fen) with an empty move stack, no vote is in the pool,
\* legal_moves is the engine's list for that position, game_number is the
\* number given and playing is True.
C12_StartInitialises ==
  \A number \in Rounds, fen \in Fens :
    LET ch == start_game(CH, number, fen).ch
    IN  /\ ch.board.move_stack = <<>>
        /\ Position(ch.board) = FenPosition(fen)
        /\ (fen = STARTING_FEN => Position(ch.board) = "P0")
        /\ ch.votes = <<>>
        /\ \A i \in 1..Len(vote_pool(ch)) : vote_pool(ch)[i].votes = 0
        /\ ch.legal_moves = EngineLegalSans(ch.board)
        /\ ch.game_number = number
        /\ ch.playing

\* C12 witness: the last call was start_game with round number 2 and the fen
\* that is not the default; the handler is in the state the claim describes.
C12_Witness ==
  /\ returned.method = "start_game"
  /\ game_number = 2
  /\ board = Board(OTHER_FEN)
  /\ votes = <<>>
  /\ legal_moves = <<bxc3, Bxc3, Kf8>>
  /\ playing

\* C13: when an accepted /end_game has run to its end, the round number of
\* the cog is one more than before and chess_config.json, from which a
\* restarted cog takes its round number, holds that next number, so the
\* number of the game that ended is not given out again.
C13_RoundNumberAdvances ==
  [][(/\ Resumes("end_216")
      /\ pc'["end_216"] < pc["end_216"]
      /\ EndResume) =>
       (/\ cog_game_number' = cog_game_number + 1
        /\ config_file' = cog_game_number'
        /\ config_file' \notin DOMAIN games')]_vars

\* C14: the votes are empty right after start_game, right after
\* play_popular_move has applied a move and right after end_game, so that no
\* vote of an ended game is in the pool while playing is False.
C14_ClearedAtBoundaries ==
  [][(\/ returned'.method = "start_game"
      \/ returned'.method = "end_game"
      \/ (returned'.method = "play_popular_move" /\ returned'.raised = None))
     => votes' = <<>>]_vars

\* C15: whatever moves have been played, get_pgn leaves the board with the
\* move stack it had, move for move, so that the number of moves, the
\* engine's legal moves and the cached legal_moves are the same before and
\* after the call.
C15_RecorderNonMutation ==
  LET after == get_pgn(CH, "No players", "No players").ch
  IN  /\ after.board.move_stack = board.move_stack
      /\ after.board = board
      /\ Len(after.board.move_stack) = Len(board.move_stack)
      /\ EngineLegalSans(after.board) = EngineLegalSans(board)
      /\ after.legal_moves = legal_moves

\* C15 witness: get_pgn was called on a board with three moves played, and
\* the three are on the board.
C15_Witness ==
  /\ returned.method = "get_pgn"
  /\ board.move_stack = <<e4, e5, Kd2>>

\* C16: the main line of the game get_pgn exports is the sequence of the
\* moves that were played, the first played move first, and is empty when
\* none was played.
C16_RecordedMoveOrder ==
  LET game == get_pgn(CH, "No players", "No players").ret
  IN  /\ game.Moves = board.move_stack
      /\ Len(game.Moves) = Len(board.move_stack)
      /\ game.Setup = board.root

\* C16 witness: the game exported last has two moves in the order played;
\* the empty history is the initial state.
C16_Witness ==
  /\ returned.method = "get_pgn"
  /\ returned.ret.Moves = <<Nf3, Kf8>>
  /\ board.move_stack = <<Nf3, Kf8>>

\* C17: the Result header of the record end_game returns is "GAME CANCELED"
\* exactly when the engine has no outcome for the board (its result is "*"),
\* and else the engine's result: "1-0" or "0-1" for a mate, "1/2-1/2" for a
\* draw.
C17_RecordOutcome ==
  LET record == end_game(CH, "AAC", "AAC").ret
  IN  /\ (record.Result = "GAME CANCELED") <=> (BoardOutcome(board) = "None")
      /\ (record.Result = "GAME CANCELED") <=> (BoardResult(board) = "*")
      /\ BoardResult(board) # "*" => record.Result = BoardResult(board)
      /\ BoardOutcome(board) = "checkmate" =>
            record.Result = (IF BoardTurn(board) = WHITE THEN "0-1" ELSE "1-0")
      /\ BoardOutcome(board) \in {"stalemate", "insufficient_material"} =>
            record.Result = "1/2-1/2"

\* C17 witness: end_game was called on a game under way and returned a
\* record of a canceled game; it is called on decided boards as well.
C17_Witness ==
  /\ returned.method = "end_game"
  /\ returned.ret.Result = "GAME CANCELED"
  /\ board.move_stack = <<e4>>

\* C18 (its case does not arise): whenever the pool has a move to apply, the
\* move max() picks is a key of legal_moves that the engine accepts for the
\* board, so push_san never rejects the tallied move.
C18_NeverRejected ==
  vote_pool(CH) # <<>> =>
    /\ PushSanLegal(board, PopularMove(vote_pool(CH)))
    /\ play_popular_move(CH).raised = None

C20_ResolveApplyAtomic ==
  [][(/\ board' # board
      /\ Len(board'.move_stack) = Len(board.move_stack) + 1)
     => /\ VoteResume
        /\ ~check_vote_tie(CH).ret
        /\ LET pool == vote_pool(CH)
               move == board'.move_stack[Len(board'.move_stack)]
           IN  \E i \in 1..Len(pool) :
                 /\ pool[i].move = move
                 /\ \A j \in (1..Len(pool)) \ {i} : pool[j].votes < pool[i].votes]_vars

\* C20 witness: a /vote handler has applied a move while another /vote
\* handler, whose vote was in the pool, is suspended at its await.
C20_Witness ==
  /\ pc["popular_106"] > 0
  /\ pc["vote_295"] > 0
  /\ board.move_stack # <<>>
  /\ votes = <<>>
  /\ outbox.kind = "board"

\* C21: while playing is False no move is put on the board: the move stack
\* changes only by a start_game, so a vote that was stored before end_game
\* is not applied to the ended game.
C21_NoMoveWhileIdle ==
  [][~playing =>
       (\/ board'.move_stack = board.move_stack
        \/ returned'.method = "start_game")]_vars

C23_PoolValuesLegal ==
  \A u \in DOMAIN votes :
    \E i \in 1..Len(legal_moves) : Lower(votes[u]) = Lower(legal_moves[i])

\* C23 witness: after a move was played two votes are in the pool, one of
\* them typed in another letter case than the engine writes the move.
C23_Witness ==
  /\ board.move_stack = <<Nf3>>
  /\ Cardinality(DOMAIN votes) = 2
  /\ \E u \in DOMAIN votes : votes[u] = <<"k", "f", "8">>

\* C24: when the game on the board is decided and the /vote handler that
\* applied the last move runs on, one record is written under games/ and
\* the round number of the cog goes up by one; whatever handlers interleave,
\* there are never more records than the round number has gone up.
C24_WriteOnceRecord ==
  [][/\ (/\ Resumes("popular_106")
          /\ pc'["popular_106"] < pc["popular_106"]
          /\ BoardOutcome(board) # "None"
          /\ PopularResume)
        => /\ Cardinality(DOMAIN games') = Cardinality(DOMAIN games) + 1
           /\ cog_game_number' = cog_game_number + 1
     /\ Cardinality(DOMAIN games') - Cardinality(DOMAIN games)
          = cog_game_number' - cog_game_number]_vars

\* C25: once playing is True, a /start_game handler that runs on after its
\* await does not set up the game again: the board with its move stack and
\* the votes stay as they are.
C25_OneSessionAtATime ==
  [][(/\ Resumes("start_165")
      /\ pc'["start_165"] < pc["start_165"]
      /\ playing
      /\ StartResume) => UNCHANGED <<board, votes>>]_vars

\* C26: a /vote handler that runs on while the pool holds fewer votes than
\* vote_minimum neither applies a move nor reports a tie nor logs an error of
\* the resolver, and no step of any handler puts a move on the board while
\* the pool holds fewer votes than vote_minimum.
C26_QuorumGate ==
  [][/\ (/\ Resumes("vote_295")
          /\ pc'["vote_295"] < pc["vote_295"]
          /\ Cardinality(DOMAIN votes) < vote_minimum)
        => UNCHANGED <<board, votes, legal_moves, outbox, error_log>>
     /\ Len(board'.move_stack) = Len(board.move_stack) + 1
        => Cardinality(DOMAIN votes) >= vote_minimum]_vars

\* C26 witness: with vote_minimum 2 one vote is in the pool, its handler has
\* run to its end and no move was applied.
C26_Witness ==
  /\ playing
  /\ vote_minimum = 2
  /\ Cardinality(DOMAIN votes) = 1
  /\ InFlight = 0
  /\ board.move_stack = <<>>
  /\ outbox.kind = "board"

\* C27: whenever a /vote handler runs on, passes the test of vote_minimum and
\* so calls check_vote_tie, there is a vote in the pool and a move in
\* legal_moves; and no move is put on the board while the pool is empty.
C27_NobodyVotedNotResolved ==
  [][/\ (/\ Resumes("vote_295")
          /\ pc'["vote_295"] < pc["vote_295"]
          /\ QuorumReached(CH, vote_minimum))
        => (votes # <<>> /\ legal_moves # <<>>)
     /\ Len(board'.move_stack) = Len(board.move_stack) + 1
        => votes # <<>>]_vars

\* C28: while a game is played, the test of the team in /vote lets a voter
\* through exactly when the voter has the role of the side to move: "white"
\* (with or without "black") when White is to move, "black" when Black is.
C28_TurnGating ==
  playing =>
    \A roles \in SUBSET {"white", "black"} :
      TeamAllowed(board, roles) <=>
        (IF BoardTurn(board) = WHITE THEN "white" \in roles ELSE "black" \in roles)

\* C29: the keys of vote_pool are the entries of legal_moves, each once,
\* those nobody voted for included and no other, which once a game was
\* started are the engine's legal moves of the board; the count of a key is
\* the number of voters whose text, in lower case, is the key in lower case.
C29_TallyShape ==
  LET pool == vote_pool(CH)
      keys == {pool[i].move : i \in 1..Len(pool)}
  IN  /\ keys = {legal_moves[i] : i \in 1..Len(legal_moves)}
      /\ Len(pool) = Cardinality(keys)
      /\ CH # NewChessHandler =>
            keys = {EngineLegalSans(board)[i] : i \in 1..Len(EngineLegalSans(board))}
      /\ \A i \in 1..Len(pool) :
            pool[i].votes =
              Cardinality({u \in DOMAIN votes : Lower(votes[u]) = Lower(pool[i].move)})

\* C29 witness: three moves are legal, one voter typed a move in capitals,
\* and the pool has a key with no vote next to keys with a vote.
C29_Witness ==
  /\ Len(legal_moves) = 3
  /\ \E u \in DOMAIN votes : votes[u] = <<"B", "X", "C", "3">>
  /\ \E i \in 1..Len(vote_pool(CH)) : vote_pool(CH)[i].votes = 0
  /\ \E i \in 1..Len(vote_pool(CH)) : vote_pool(CH)[i].votes = 1

\* C30: try_add_vote, whoever votes and whatever the text, leaves the board
\* with its move stack, legal_moves, playing and game_number as they are;
\* when it rejects, votes too; when it accepts, the entry of every other
\* voter is what it was and no entry but the voter's is added.
C30_VoteFrame ==
  \A user_id \in Users, move \in MoveTexts :
    LET r == try_add_vote(CH, user_id, move)
    IN  /\ r.ch.board = board
        /\ r.ch.legal_moves = legal_moves
        /\ r.ch.playing = playing
        /\ r.ch.game_number = game_number
        /\ r.raised = None
        /\ ~r.ret => r.ch.votes = votes
        /\ r.ret =>
             /\ DOMAIN r.ch.votes \ {user_id} = DOMAIN votes \ {user_id}
             /\ \A u \in DOMAIN votes \ {user_id} : r.ch.votes[u] = votes[u]

\* C30 witness: a vote was accepted while another voter's vote, for another
\* move, was in the pool, and both are there.
C30_Witness ==
  /\ returned.method = "try_add_vote"
  /\ returned.ret = TRUE
  /\ DOMAIN votes = {1, 2}
  /\ votes[1] # votes[2]
  /\ board.move_stack = <<e4>>

AwaitsRef == {"vote_338", "board_344", "start_249", "end_293"}

InFlightRef == pc["vote_338"] + pc["board_344"] + pc["start_249"] + pc["end_293"]

\* an attribute no line has assigned yet
NoAttribute == "no attribute"

\* what no line of this revision reads or writes
other_vars == <<game_number, returned, cog_game_number, error_log, games, config_file>>

game_vars == <<board, legal_moves, votes, playing>>

\* the Game object as a value
G == [board |-> board, legal_moves |-> legal_moves, votes |-> votes, playing |-> playing]

SetGame(g) ==
  /\ board' = g.board
  /\ legal_moves' = g.legal_moves
  /\ votes' = g.votes
  /\ playing' = g.playing

\* Game.__init__: board and votes are first assigned by start_game
NewGame ==
  [board |-> NoAttribute, legal_moves |-> <<>>, votes |-> NoAttribute, playing |-> FALSE]

\* the vote_sum property: dict.fromkeys(legal_moves, 0), then one more for
\* the key each vote names; here its items
Game_vote_sum(g) ==
  [i \in 1..Len(g.legal_moves) |->
     [move |-> g.legal_moves[i],
      votes |-> Cardinality({u \in DOMAIN g.votes : g.votes[u] = g.legal_moves[i]})]]

\* Game.get_pgn: as ChessHandler.get_pgn with fixed Round, White and Black
Game_get_pgn(g) ==
  LET undone == UndoAll(g.board, <<>>)
      replayed == ReplayAll(undone.board, undone.switchyard, <<>>)
      b == replayed.board
      pgn == [Round |-> <<"1">>,
              White |-> "White team",
              Black |-> "Black team",
              Setup |-> undone.board.root,
              Moves |-> replayed.mainline,
              Result |-> ResultHeader(b)]
  IN  Result([g EXCEPT !.board = b], pgn, None)

\* Game.start_game
Game_start_game(g, fen) ==
  [g EXCEPT !.board = Board(fen),
            !.playing = TRUE,
            !.votes = <<>>,
            !.legal_moves = EngineLegalSans(Board(fen))]

\* Game.end_game
Game_end_game(g) == Game_get_pgn([g EXCEPT !.playing = FALSE])

\* Game.vote: the text must be an entry of legal_moves as it is written
Game_vote(g, user, move) ==
  IF ~(\E i \in 1..Len(g.legal_moves) : g.legal_moves[i] = move)
  THEN Result(g, FALSE, None)
  ELSE Result([g EXCEPT !.votes = SetVote(g.votes, user, move)], TRUE, None)

\* Game.play_popular_move: False when more than one move has the most
\* votes, else the move is pushed and True returned
Game_play_popular_move(g) ==
  LET sum == Game_vote_sum(g)
  IN  IF sum = <<>> THEN Result(g, None, "ValueError")
      ELSE LET most_votes == MaxVotes(sum)
               popular_moves == {i \in 1..Len(sum) : sum[i].votes = most_votes}
           IN  IF Cardinality(popular_moves) > 1 THEN Result(g, FALSE, None)
               ELSE IF ~PushSanLegal(g.board, PopularMove(sum))
               THEN Result(g, None, "IllegalMoveError")
               ELSE LET b == BoardPush(g.board, PopularMove(sum))
                    IN  Result([g EXCEPT !.board = b,
                                         !.votes = <<>>,
                                         !.legal_moves = EngineLegalSans(b)],
                               TRUE, None)

\* /vote, the test of the voter's roles against the side to move
Ref_TeamAllowed(b, roles) ==
  IF BoardTurn(b) = WHITE THEN "white" \in roles ELSE "black" \in roles

\* the embed of a tie: one field for each move that has the most votes
Ref_TieFields(g) ==
  LET sum == Game_vote_sum(g)
      most_votes == MaxVotes(sum)
  IN  {sum[i] : i \in {j \in 1..Len(sum) : sum[j].votes = most_votes}}

\* /start_game up to "Starting game..." (bot.check_perms answers at once, as
\* check_admin does)
Ref_StartCommand ==
  /\ InFlightRef < MaxHandlers
  /\ UNCHANGED <<game_vars, other_vars>>
  /\ \E user_has_perms \in BOOLEAN, in_channel \in BOOLEAN :
       IF ~user_has_perms \/ ~in_channel \/ playing
       THEN Return /\ UNCHANGED <<vote_minimum, outbox>>
       ELSE \E text \in VoteMinimumTexts :
              IF ~IsNumeric(text)
              THEN Return /\ UNCHANGED <<vote_minimum, outbox>>
              ELSE /\ vote_minimum' = ParseInt(text)
                   /\ Send("starting")
                   /\ Suspend("start_249")

\* /start_game after "Starting game..." was sent: Game.start_game(fen), the
\* roles granted when mix_teams is set, the board sent
Ref_StartResume ==
  \E fen \in Fens :
    /\ Resumes("start_249")
    /\ SetGame(Game_start_game(G, fen))
    /\ Finish("start_249")
    /\ Send("board")
    /\ UNCHANGED <<vote_minimum, other_vars>>

\* /end_game up to "Ending game..."
Ref_EndCommand ==
  /\ InFlightRef < MaxHandlers
  /\ UNCHANGED <<game_vars, vote_minimum, other_vars>>
  /\ \E user_has_perms \in BOOLEAN, in_channel \in BOOLEAN :
       IF ~in_channel \/ ~user_has_perms \/ ~playing
       THEN Return /\ UNCHANGED outbox
       ELSE Send("ending") /\ Suspend("end_293")

\* /end_game after "Ending game..." was sent: Game.end_game and the GAME OVER
\* embed
Ref_EndResume ==
  LET result == Game_end_game(G)
  IN  /\ Resumes("end_293")
      /\ SetGame(result.ch)
      /\ outbox' = [kind |-> "game_over", pgn |-> result.ret]
      /\ Finish("end_293")
      /\ UNCHANGED <<vote_minimum, other_vars>>

\* /vote up to "You voted for ...": the checks, each answered with an
\* ephemeral message, then Game.vote
Ref_VoteCommand ==
  /\ InFlightRef < MaxHandlers
  /\ UNCHANGED <<vote_minimum, outbox, other_vars>>
  /\ \E in_channel \in BOOLEAN :
       IF ~in_channel \/ ~playing
       THEN Return /\ UNCHANGED game_vars
       ELSE \E user_id \in Users :
              IF ~Ref_TeamAllowed(board, Roles(user_id))
              THEN Return /\ UNCHANGED game_vars
              ELSE \E move \in MoveTexts :
                     LET r == Game_vote(G, user_id, move)
                     IN  IF ~r.ret
                         THEN Return /\ UNCHANGED game_vars
                         ELSE SetGame(r.ch) /\ Suspend("vote_338")

\* /vote after the answer was sent: the quorum test, play_popular_move and
\* the board or the embed of a tie; the except clause posts what is raised
Ref_VoteResume ==
  /\ Resumes("vote_338")
  /\ UNCHANGED <<vote_minimum, other_vars>>
  /\ IF Cardinality(DOMAIN votes) >= vote_minimum
     THEN LET r == Game_play_popular_move(G)
          IN  IF r.raised # None
              THEN Send("failure") /\ Finish("vote_338") /\ UNCHANGED game_vars
              ELSE IF r.ret
              THEN SetGame(r.ch) /\ Send("board") /\ Move("vote_338", "board_344")
              ELSE /\ outbox' = [kind |-> "tie", fields |-> Ref_TieFields(G)]
                   /\ Finish("vote_338")
                   /\ UNCHANGED game_vars
     ELSE Finish("vote_338") /\ UNCHANGED <<game_vars, outbox>>

\* /vote after the board was sent: the game is ended on a checkmate
Ref_BoardResume ==
  LET result == Game_end_game(G)
  IN  /\ Resumes("board_344")
      /\ Finish("board_344")
      /\ UNCHANGED <<vote_minimum, other_vars>>
      /\ IF BoardOutcome(board) = "checkmate"
         THEN SetGame(result.ch) /\ outbox' = [kind |-> "game_over", pgn |-> result.ret]
         ELSE UNCHANGED <<game_vars, outbox>>

\* Chess.__init__ of the reference cog
InitRef ==
  /\ board = NewGame.board
  /\ legal_moves = NewGame.legal_moves
  /\ votes = NewGame.votes
  /\ playing = NewGame.playing
  /\ vote_minimum = 0
  /\ pc = [label \in AwaitsRef |-> 0]
  /\ outbox = [kind |-> "none"]
  /\ game_number = NoAttribute
  /\ returned = NoAttribute
  /\ cog_game_number = NoAttribute
  /\ error_log = NoAttribute
  /\ games = NoAttribute
  /\ config_file = NoAttribute

NextRef ==
  \/ Ref_VoteCommand
  \/ Ref_VoteResume
  \/ Ref_BoardResume
  \/ Ref_StartCommand
  \/ Ref_StartResume
  \/ Ref_EndCommand
  \/ Ref_EndResume

SpecRef == InitRef /\ [][NextRef]_vars

\* C33: after /vote applied a move that leaves the position with an outcome
\* (checkmate, stalemate or draw) and sent the board, the handler ends the
\* game: playing is False when it has run on
C33_AutoEndEveryOutcome ==
  [][(/\ Resumes("board_344")
      /\ pc'["board_344"] < pc["board_344"]
      /\ playing
      /\ BoardOutcome(board) # "None")
     => ~playing']_vars

\* ------------------------------------------------------------- first revision
\* src/cogs/chess.py: the class Game and the cog Chess around it, in the
\* variables of the reference revision

\* the awaits at which a handler of the first cog is suspended
AwaitsFirst == {"vote_315", "start_219", "end_264"}

InFlightFirst == pc["vote_315"] + pc["start_219"] + pc["end_264"]

\* Game.__init__ assigns legal_moves and playing. board and votes are first
\* assigned by start_game and every line that reads them runs after it; they
\* are held at the values start_game gives them
First_NewGame ==
  [board |-> Board(STARTING_FEN), legal_moves |-> <<>>, votes |-> <<>>, playing |-> FALSE]

\* the vote_sum property, here its items in the order of legal_moves
First_Game_vote_sum(g) ==
  [i \in 1..Len(g.legal_moves) |->
     [move |-> g.legal_moves[i],
      votes |-> Cardinality({u \in DOMAIN g.votes : g.votes[u] = g.legal_moves[i]})]]

\* Game.start_game: reset_board, reset_votes, get_legal_moves
First_Game_start_game(g) ==
  [g EXCEPT !.playing = TRUE,
            !.board = Board(STARTING_FEN),
            !.votes = <<>>,
            !.legal_moves = EngineLegalSans(Board(STARTING_FEN))]

\* Game.end_game
First_Game_end_game(g) == [g EXCEPT !.playing = FALSE]

\* Game.vote
First_Game_vote(g, user, move) ==
  IF ~(\E i \in 1..Len(g.legal_moves) : g.legal_moves[i] = move)
  THEN Result(g, FALSE, None)
  ELSE Result([g EXCEPT !.votes = SetVote(g.votes, user, move)], TRUE, None)

\* Game.play_popular_move: the first move that has the most votes is pushed;
\* max() of an empty vote_sum raises ValueError
First_Game_play_popular_move(g) ==
  LET sum == First_Game_vote_sum(g)
  IN  IF sum = <<>> THEN Result(g, None, "ValueError")
      ELSE IF ~PushSanLegal(g.board, PopularMove(sum))
      THEN Result(g, None, "IllegalMoveError")
      ELSE LET b == BoardPush(g.board, PopularMove(sum))
           IN  Result([g EXCEPT !.board = b,
                                !.votes = <<>>,
                                !.legal_moves = EngineLegalSans(b)],
                      None, None)

\* /start_game up to "Starting game..."
First_StartCommand ==
  /\ InFlightFirst < MaxHandlers
  /\ UNCHANGED <<game_vars, other_vars>>
  /\ \E user_has_perms \in BOOLEAN, in_channel \in BOOLEAN :
       IF ~user_has_perms \/ ~in_channel \/ playing
       THEN Return /\ UNCHANGED <<vote_minimum, outbox>>
       ELSE \E text \in VoteMinimumTexts :
              IF ~IsNumeric(text)
              THEN Return /\ UNCHANGED <<vote_minimum, outbox>>
              ELSE /\ vote_minimum' = ParseInt(text)
                   /\ Send("starting")
                   /\ Suspend("start_219")

\* /start_game after "Starting game..." was sent
First_StartResume ==
  /\ Resumes("start_219")
  /\ SetGame(First_Game_start_game(G))
  /\ Finish("start_219")
  /\ Send("board")
  /\ UNCHANGED <<vote_minimum, other_vars>>

\* /end_game up to "Ending game..."
First_EndCommand ==
  /\ InFlightFirst < MaxHandlers
  /\ UNCHANGED <<game_vars, vote_minimum, other_vars>>
  /\ \E user_has_perms \in BOOLEAN :
       IF ~user_has_perms \/ ~playing
       THEN Return /\ UNCHANGED outbox
       ELSE Send("ending") /\ Suspend("end_264")

\* /end_game after "Ending game..." was sent
First_EndResume ==
  /\ Resumes("end_264")
  /\ SetGame(First_Game_end_game(G))
  /\ Send("ended")
  /\ Finish("end_264")
  /\ UNCHANGED <<vote_minimum, other_vars>>

\* /vote up to "You voted for ..."
First_VoteCommand ==
  /\ InFlightFirst < MaxHandlers
  /\ UNCHANGED <<vote_minimum, outbox, other_vars>>
  /\ \E in_channel \in BOOLEAN :
       IF ~in_channel \/ ~playing
       THEN Return /\ UNCHANGED game_vars
       ELSE \E user_id \in Users :
              IF ~Ref_TeamAllowed(board, Roles(user_id))
              THEN Return /\ UNCHANGED game_vars
              ELSE \E move \in MoveTexts :
                     LET r == First_Game_vote(G, user_id, move)
                     IN  IF ~r.ret
                         THEN Return /\ UNCHANGED game_vars
                         ELSE SetGame(r.ch) /\ Suspend("vote_315")

\* /vote after the answer was sent: the move is played when the number of
\* votes equals vote_minimum
First_VoteResume ==
  /\ Resumes("vote_315")
  /\ Finish("vote_315")
  /\ UNCHANGED <<vote_minimum, other_vars>>
  /\ IF Cardinality(DOMAIN votes) = vote_minimum
     THEN LET r == First_Game_play_popular_move(G)
          IN  IF r.raised # None
              THEN Send("failure") /\ UNCHANGED game_vars
              ELSE SetGame(r.ch) /\ Send("board")
     ELSE UNCHANGED <<game_vars, outbox>>

\* Chess.__init__ of the first cog
InitFirst ==
  /\ board = First_NewGame.board
  /\ legal_moves = First_NewGame.legal_moves
  /\ votes = First_NewGame.votes
  /\ playing = First_NewGame.playing
  /\ vote_minimum = 0
  /\ pc = [label \in AwaitsFirst |-> 0]
  /\ outbox = [kind |-> "none"]
  /\ game_number = NoAttribute
  /\ returned = NoAttribute
  /\ cog_game_number = NoAttribute
  /\ error_log = NoAttribute
  /\ games = NoAttribute
  /\ config_file = NoAttribute

NextFirst ==
  \/ First_VoteCommand
  \/ First_VoteResume
  \/ First_StartCommand
  \/ First_StartResume
  \/ First_EndCommand
  \/ First_EndResume

SpecFirst == InitFirst /\ [][NextFirst]_vars

\* the event loop resumes every suspended handler; no member has to send a
\* command
SpecFirstFair ==
  /\ SpecFirst
  /\ WF_vars(First_VoteResume)
  /\ WF_vars(First_StartResume)
  /\ WF_vars(First_EndResume)

\* a game is played and the pool holds the votes of at least vote_minimum
\* members
First_QuorumHeld ==
  /\ playing
  /\ votes # <<>>
  /\ Cardinality(DOMAIN votes) >= vote_minimum

\* C34: whenever an accepted vote leaves the pool with at least vote_minimum
\* voters, the pool is eventually cleared (by the move that is played), or at
\* least the game is ended
C34_QuorumProgress == First_QuorumHeld ~> (~playing \/ votes = <<>>)

\* every vote of the pool is a legal move as the engine writes it
ExactCaseVotes ==
  \A u \in DOMAIN votes : \E i \in 1..Len(legal_moves) : legal_moves[i] = votes[u]

\* C35: for a legal-move list that is not empty and a pool of exact-case legal
\* moves, Game.play_popular_move of the reference revision returns False
\* exactly when check_vote_tie returns True, and otherwise both revisions
\* push the same move, empty the pool and refresh the legal moves
C35_ResolverEquivalence ==
  (legal_moves # <<>> /\ ExactCaseVotes) =>
    LET ref == Game_play_popular_move(G)
        tie == check_vote_tie(CH)
        played == play_popular_move(CH)
    IN  /\ ref.raised = None
        /\ tie.raised = None
        /\ (ref.ret = FALSE) <=> tie.ret
        /\ ~tie.ret =>
             /\ played.raised = None
             /\ played.ch.board = ref.ch.board
             /\ played.ch.votes = <<>> /\ ref.ch.votes = <<>>
             /\ played.ch.legal_moves = EngineLegalSans(played.ch.board)
             /\ ref.ch.legal_moves = played.ch.legal_moves

\* ------------------------------------------------------------- is_possible_move
\* the strings is_possible_move looks for, as sets of characters
PossiblePieces == {"k", "q", "b", "n", "r", "p"}
PossibleRanks == {"1", "2", "3", "4", "5", "6", "7", "8"}
PossibleFiles == {"a", "b", "c", "d", "e", "f", "g", "h"}
PossibleNotation == {"x", "="}
PossibleSuffixes == {"#", "+"}

\* c in text
Occurs(c, text) == \E i \in 1..Len(text) : text[i] = c

\* notation == 0: the string "x=" is compared with the number 0
NotationIsZero == FALSE

\* the loop over the characters from index on (the first index is 1 here),
\* with the counter it keeps
RECURSIVE PossibleScan(_, _, _)
PossibleScan(text, index, counter) ==
  IF index > Len(text) THEN TRUE
  ELSE LET character == text[index]
       IN  IF index = 1 /\ character \in PossiblePieces
           THEN PossibleScan(text, index + 1, counter)
           ELSE IF (NotationIsZero /\ counter.pieces > 1) \/ counter.pieces > 2 THEN FALSE
           ELSE IF (NotationIsZero /\ counter.ranks > 1) \/ counter.ranks > 2 THEN FALSE
           ELSE IF (NotationIsZero /\ counter.files > 1) \/ counter.files > 2 THEN FALSE
           ELSE IF character \in PossibleRanks
           THEN PossibleScan(text, index + 1, [counter EXCEPT !.ranks = @ + 1])
           ELSE IF character \in PossibleFiles
           THEN PossibleScan(text, index + 1, [counter EXCEPT !.files = @ + 1])
           ELSE IF character \in PossibleNotation
           THEN PossibleScan(text, index + 1, counter)
           ELSE FALSE

\* is_possible_move
is_possible_move(move) ==
  LET text == Lower(move)
      notations == Cardinality({symbol \in PossibleNotation : Occurs(symbol, text)})
      stripped == IF text[Len(text)] \in PossibleSuffixes
                  THEN SubSeq(text, 1, Len(text) - 1)
                  ELSE text
  IN  IF text \in {<<"o", "-", "o">>, <<"o", "-", "o", "-", "o">>} THEN TRUE
      ELSE IF Len(text) < 2 \/ Len(text) > 7 THEN FALSE
      ELSE IF notations > 1 THEN FALSE
      ELSE IF \/ ~(\E rank \in PossibleRanks : Occurs(rank, text))
              \/ ~(\E file \in PossibleFiles : Occurs(file, text))
      THEN FALSE
      ELSE PossibleScan(stripped, 1, [pieces |-> 1, ranks |-> 0, files |-> 0])

\* str.upper() on one character: the letters that occur in the texts used
UpperChar(c) ==
  CASE c = "b" -> "B"
    [] c = "d" -> "D"
    [] c = "e" -> "E"
    [] c = "k" -> "K"
    [] c = "n" -> "N"
    [] c = "o" -> "O"
    [] c = "q" -> "Q"
    [] c = "r" -> "R"
    [] c = "x" -> "X"
    [] OTHER -> c

\* str.upper()
Upper(text) == [i \in 1..Len(text) |-> UpperChar(text[i])]

\* Standard algebraic notation as board.san() writes it, on two files and
\* three ranks: pawn moves, captures, promotions, piece moves with and without
\* the file, rank or square they come from, castling; then the suffix of a
\* check or a mate
SanFiles == {"d", "e"}
SanRanks == {"4", "5", "8"}
SanPieceLetters == {"K", "Q", "R", "B", "N"}
SanPromotionLetters == {"Q", "R", "B", "N"}

\* two files next to each other
SanFilePairs == {fg \in SanFiles \X SanFiles : fg[1] # fg[2]}

SanBodies ==
  {<<f, r>> : f \in SanFiles, r \in SanRanks \ {"8"}}
  \cup {<<fg[1], "x", fg[2], r>> : fg \in SanFilePairs, r \in SanRanks \ {"8"}}
  \cup {<<f, "8", "=", p>> : f \in SanFiles, p \in SanPromotionLetters}
  \cup {<<fg[1], "x", fg[2], "8", "=", p>> : fg \in SanFilePairs, p \in SanPromotionLetters}
  \cup {<<p, f, r>> : p \in SanPieceLetters, f \in SanFiles, r \in SanRanks}
  \cup {<<p, "x", f, r>> : p \in SanPieceLetters, f \in SanFiles, r \in SanRanks}
  \cup {<<"R", g, f, r>> : g \in SanFiles, f \in SanFiles, r \in SanRanks}
  \cup {<<"N", fg[1], fg[2], r>> : fg \in SanFilePairs, r \in SanRanks}
  \cup {<<p, "4", f, "5">> : p \in {"N", "R"}, f \in SanFiles}
  \cup {<<"Q", "d", "4", "x", "e", "5">>, <<"Q", "d", "4", "e", "5">>}
  \cup {<<"O", "-", "O">>, <<"O", "-", "O", "-", "O">>}

SanTexts ==
  SanBodies \cup {Append(s, c) : s \in SanBodies, c \in {"+", "#"}}

\* what is_possible_move is called with: every move text as the engine writes
\* it, in lower case and in upper case, and texts that are no moves
PossibleInputs ==
  SanTexts \cup {Lower(s) : s \in SanTexts} \cup {Upper(s) : s \in SanTexts}
  \cup {<<"z", "z">>, <<"e">>, <<"4", "4">>, <<"Q", "q", "q", "q">>}

San_is_possible_move ==
  /\ \E text \in PossibleInputs :
       returned' = [method |-> "is_possible_move", text |-> text,
                    ret |-> is_possible_move(text), raised |-> None]
  /\ UNCHANGED <<handler_vars, cog_vars>>

\* the handler as constructed
InitSan == InitH

NextSan == San_is_possible_move

SpecSan == InitSan /\ [][NextSan]_vars

\* a ChessHandler whose legal_moves holds the move san
WithLegalMove(san) == [NewChessHandler EXCEPT !.legal_moves = <<san>>, !.playing = TRUE]

\* C36: is_possible_move returns True for every text that try_add_vote
\* accepts when legal_moves holds a move the engine can write (castling,
\* captures, promotions, capture-promotions, check and mate suffixes), in
\* any letter case
C36_SoundPreFilter ==
  returned.method = "is_possible_move" =>
    ((\E san \in SanTexts : try_add_vote(WithLegalMove(san), 1, returned.text).ret)
       => returned.ret)

=============================================================================
